---- MODULE Spec2Model ----
(***************************************************************************)
(* A model of moca_modules/moca_redis/MocaRedis.py: the MocaRedis facade,  *)
(* its lazily created shared connection pool, and the namespaced,          *)
(* serialised commands it sends to a Redis server.                         *)
(*                                                                         *)
(* Callers are asyncio coroutines on one event loop.  A coroutine runs     *)
(* without interruption between two awaits, so every action below is the   *)
(* code between two suspension points: the await of the driver's           *)
(* create_pool, the await of pool.get() and the await of redis.execute.    *)
(* The server applies one command atomically; the reply reaches the        *)
(* issuing coroutine in the same step.                                     *)
(***************************************************************************)
EXTENDS Integers, Sequences, FiniteSets, TLC

VARIABLES
    _pool,      \* MocaRedis._pool: the shared slot, None or a pool handle
    created,    \* number of invocations of the driver's create_pool so far
    store,      \* the Redis database: physical key -> entry
    pc,         \* per coroutine: where it is suspended
    call,       \* per coroutine: the facade method it runs and its arguments
    pool,       \* per coroutine: the local variable `pool`
    conn,       \* per coroutine: the pool its borrowed connection belongs to
    ret,        \* per coroutine: the value returned or the error raised
    borrowed,   \* observer: connections borrowed by the current call
    issued,     \* observer: commands issued on the last borrowed connection
    last,       \* observer: logical key -> value of the latest applied write
    total,      \* observer: logical key -> sum of the applied signed amounts
    pushed,     \* observer: logical key -> values appended by rpush, in order
    popped,     \* observer: logical key -> number of lpop calls that removed
    applied     \* observer: per call, the writes the server applied for it

vars == <<_pool, created, store, pc, call, pool, conn, ret,
          borrowed, issued, last, total, pushed, popped, applied>>

-----------------------------------------------------------------------------
(* Bounds of the model.                                                    *)

MaxPools == 3
MaxLen == 3
MaxCount == 5

\* __init__'s default for maxsize: connections one pool lends at a time.
_maxsize == 10

Procs == {1, 2, 3}

\* Python's None; also what the driver returns for a nil reply.
None == "None"
\* Marks a logical key no applied write has given a value.
Absent == "Absent"
\* Pool handles are 1, 2, ...; NoPool is the empty slot / no connection.
NoPool == 0

\* What a finished call holds for its caller: a returned Python value of
\* the given kind (its type), or the exception raised.
Returned(kind, val) == [kind |-> kind, val |-> val]
Raised(why) == [kind |-> "error", val |-> why]
NoResult == Returned("none", None)

Keys == {"a", "b"}
Values == {"u", "w"}
Defaults == {None, "d"}
ProbeSuffixes == {"x"}
ForeignKeys == {"a", "zz"}

-----------------------------------------------------------------------------
(* Key namespacing and value (de)serialisation.                            *)

PhysKey_Unprefixed(key) == key

\* 'mr-' + key
PhysKey(key) == "mr-" \o key

InNamespace(k) == Len(k) >= 3 /\ SubSeq(k, 1, 3) = "mr-"

\* moca_dumps: an encoding of the value into bytes.
dumps(value) == "D" \o value

IsDumped(data) == Len(data) >= 1 /\ SubSeq(data, 1, 1) = "D"

\* moca_loads: no data decodes to None, dumped bytes to the value.
loads(data) == IF data = None THEN None ELSE SubSeq(data, 2, Len(data))

Decodable(data) == data = None \/ IsDumped(data)

ProbeKey(r) == "moca_modules_connection_test_key" \o r

LogicalKeys == Keys \cup {ProbeKey(r) : r \in ProbeSuffixes}
PhysKeys == {PhysKey(k) : k \in LogicalKeys} \cup ForeignKeys

-----------------------------------------------------------------------------
(* The Redis server, as far as the commands the facade issues need it.     *)
(* A string entry holds bytes, a list entry a sequence of bytes; counters  *)
(* are strings holding a decimal integer.  ttl marks an entry that SETEX   *)
(* gave an expiry.                                                         *)

NoEntry == [t |-> "none", s |-> "", l |-> <<>>, ttl |-> FALSE]
StrEntry(bytes, expires) == [t |-> "string", s |-> bytes, l |-> <<>>, ttl |-> expires]

DigitChars == <<"0", "1", "2", "3", "4", "5", "6", "7", "8", "9">>
IsDigit(ch) == \E d \in 1..10 : DigitChars[d] = ch
DigitVal(ch) == (CHOOSE d \in 1..10 : DigitChars[d] = ch) - 1

RECURSIVE NatToStr(_)
NatToStr(n) ==
    IF n < 10 THEN DigitChars[n + 1]
    ELSE NatToStr(n \div 10) \o DigitChars[(n % 10) + 1]

IntToStr(n) == IF n < 0 THEN "-" \o NatToStr(-n) ELSE NatToStr(n)

IsNatStr(s) ==
    /\ Len(s) >= 1
    /\ \A i \in 1..Len(s) : IsDigit(SubSeq(s, i, i))

IsIntStr(s) ==
    \/ IsNatStr(s)
    \/ Len(s) >= 2 /\ SubSeq(s, 1, 1) = "-" /\ IsNatStr(SubSeq(s, 2, Len(s)))

RECURSIVE StrToNat(_)
StrToNat(s) ==
    IF Len(s) = 1 THEN DigitVal(s)
    ELSE 10 * StrToNat(SubSeq(s, 1, Len(s) - 1)) + DigitVal(SubSeq(s, Len(s), Len(s)))

StrToInt(s) ==
    IF SubSeq(s, 1, 1) = "-" THEN 0 - StrToNat(SubSeq(s, 2, Len(s))) ELSE StrToNat(s)

Reply(st, val) == [store |-> st, err |-> FALSE, val |-> val]
ErrorReply(st, why) == [store |-> st, err |-> TRUE, val |-> why]

\* MSET k1 v1 k2 v2 ...: all pairs applied by the one command, left to right.
RECURSIVE MSetApply(_, _)
MSetApply(st, args) ==
    IF Len(args) < 2 THEN st
    ELSE MSetApply([st EXCEPT ![args[1]] = StrEntry(args[2], FALSE)],
                   SubSeq(args, 3, Len(args)))

\* INCRBY / DECRBY and their unit forms: absent counts as 0.
Adjust(st, k, by) ==
    LET e == st[k] IN
    IF e.t = "list" THEN ErrorReply(st, "WRONGTYPE")
    ELSE IF e.t = "string" /\ ~IsIntStr(e.s) THEN ErrorReply(st, "ERR not an integer")
    ELSE LET n == (IF e.t = "none" THEN 0 ELSE StrToInt(e.s)) + by IN
         Reply([st EXCEPT ![k] = StrEntry(IntToStr(n), e.ttl)], n)

\* The index range LRANGE and LTRIM select in a list of length n (1-based,
\* empty when lo > hi).
RangeLo(n, start) ==
    LET s == IF start < 0 THEN n + start ELSE start IN
    (IF s < 0 THEN 0 ELSE s) + 1
RangeHi(n, end) ==
    LET e == IF end < 0 THEN n + end ELSE end IN
    (IF e >= n THEN n - 1 ELSE e) + 1

Push(st, k, bytes, atTail) ==
    LET e == st[k] IN
    IF e.t = "string" THEN ErrorReply(st, "WRONGTYPE")
    ELSE LET items == IF atTail THEN Append(e.l, bytes) ELSE <<bytes>> \o e.l IN
         Reply([st EXCEPT ![k] = [t |-> "list", s |-> "", l |-> items, ttl |-> e.ttl]],
               Len(items))

Pop(st, k, atTail) ==
    LET e == st[k] IN
    IF e.t = "string" THEN ErrorReply(st, "WRONGTYPE")
    ELSE IF e.t = "none" THEN Reply(st, None)
    ELSE LET n == Len(e.l)
             item == IF atTail THEN e.l[n] ELSE e.l[1]
             rest == IF atTail THEN SubSeq(e.l, 1, n - 1) ELSE SubSeq(e.l, 2, n)
         IN Reply([st EXCEPT ![k] = IF rest = <<>> THEN NoEntry
                                    ELSE [e EXCEPT !.l = rest]], item)

Redis(cmd, st) ==
    LET name == cmd[1] IN
    CASE name = "SET" ->
            Reply([st EXCEPT ![cmd[2]] = StrEntry(cmd[3], FALSE)], "OK")
      [] name = "SETEX" ->
            IF cmd[3] <= 0 THEN ErrorReply(st, "ERR invalid expire time")
            ELSE Reply([st EXCEPT ![cmd[2]] = StrEntry(cmd[4], TRUE)], "OK")
      [] name = "MSET" ->
            IF Len(cmd) < 3 THEN ErrorReply(st, "ERR wrong number of arguments")
            ELSE Reply(MSetApply(st, Tail(cmd)), "OK")
      [] name = "GET" ->
            IF st[cmd[2]].t = "list" THEN ErrorReply(st, "WRONGTYPE")
            ELSE IF st[cmd[2]].t = "none" THEN Reply(st, None)
            ELSE Reply(st, st[cmd[2]].s)
      [] name = "MGET" ->
            IF Len(cmd) < 2 THEN ErrorReply(st, "ERR wrong number of arguments")
            ELSE Reply(st, [i \in 1..(Len(cmd) - 1) |->
                              IF st[cmd[i + 1]].t = "string"
                              THEN st[cmd[i + 1]].s ELSE None])
      [] name = "DEL" ->
            IF Len(cmd) < 2 THEN ErrorReply(st, "ERR wrong number of arguments")
            ELSE LET ks == {cmd[i] : i \in 2..Len(cmd)} IN
                 Reply([k \in DOMAIN st |-> IF k \in ks THEN NoEntry ELSE st[k]],
                       Cardinality({k \in ks : st[k].t # "none"}))
      [] name = "RPUSH" -> Push(st, cmd[2], cmd[3], TRUE)
      [] name = "LPUSH" -> Push(st, cmd[2], cmd[3], FALSE)
      [] name = "RPOP" -> Pop(st, cmd[2], TRUE)
      [] name = "LPOP" -> Pop(st, cmd[2], FALSE)
      [] name = "LRANGE" ->
            IF st[cmd[2]].t = "string" THEN ErrorReply(st, "WRONGTYPE")
            ELSE LET items == st[cmd[2]].l IN
                 Reply(st, SubSeq(items, RangeLo(Len(items), cmd[3]),
                                         RangeHi(Len(items), cmd[4])))
      [] name = "LINDEX" ->
            IF st[cmd[2]].t = "string" THEN ErrorReply(st, "WRONGTYPE")
            ELSE LET items == st[cmd[2]].l
                     i == (IF cmd[3] < 0 THEN Len(items) + cmd[3] ELSE cmd[3]) + 1
                 IN Reply(st, IF i \in 1..Len(items) THEN items[i] ELSE None)
      [] name = "LLEN" ->
            IF st[cmd[2]].t = "string" THEN ErrorReply(st, "WRONGTYPE")
            ELSE Reply(st, Len(st[cmd[2]].l))
      [] name = "LTRIM" ->
            IF st[cmd[2]].t = "string" THEN ErrorReply(st, "WRONGTYPE")
            ELSE LET e == st[cmd[2]]
                     rest == SubSeq(e.l, RangeLo(Len(e.l), cmd[3]),
                                         RangeHi(Len(e.l), cmd[4]))
                 IN Reply([st EXCEPT ![cmd[2]] = IF rest = <<>> THEN NoEntry
                                                 ELSE [e EXCEPT !.l = rest]], "OK")
      [] name = "FLUSHDB" -> Reply([k \in DOMAIN st |-> NoEntry], "OK")
      [] name = "DBSIZE" -> Reply(st, Cardinality({k \in DOMAIN st : st[k].t # "none"}))
      [] name = "INFO" -> Reply(st, "info")
      [] name = "LASTSAVE" -> Reply(st, 0)
      [] name = "BGSAVE" -> Reply(st, "OK")
      [] name = "INCR" -> Adjust(st, cmd[2], 1)
      [] name = "INCRBY" -> Adjust(st, cmd[2], cmd[3])
      [] name = "DECR" -> Adjust(st, cmd[2], -1)
      [] name = "DECRBY" -> Adjust(st, cmd[2], 0 - cmd[3])

-----------------------------------------------------------------------------
(* The facade's methods: the command each one issues and what it makes of  *)
(* the reply.                                                              *)

NoCall == [op |-> "", key |-> "", keys |-> <<>>, data |-> <<>>, value |-> None,
           expiration |-> -1, default |-> None, start |-> 0, end |-> 0,
           index |-> 0, amount |-> 0, i |-> 0, fresh |-> NoPool]

CounterOps == {"increment", "increment_by", "decrement", "decrement_by"}
PushOps == {"rpush", "lpush"}

\* set: SET without expiration, SETEX with one.
set_command(key, value, expiration) ==
    IF expiration = -1 THEN <<"SET", PhysKey(key), dumps(value)>>
    ELSE <<"SETEX", PhysKey(key), expiration, dumps(value)>>

\* set_multi without expiration: tmp holds 'mr-' + key and dumps(value) of
\* every pair, in order, and goes out as one MSET.
RECURSIVE set_multi_tmp(_)
set_multi_tmp(data) ==
    IF data = <<>> THEN <<>>
    ELSE <<PhysKey(data[1][1]), dumps(data[1][2])>> \o set_multi_tmp(Tail(data))

set_multi_command_FirstPairOnly(data) ==
    <<"MSET">> \o set_multi_tmp(IF data = <<>> THEN data ELSE <<data[1]>>)

set_multi_command(data) == <<"MSET">> \o set_multi_tmp(data)

\* set_multi with expiration: the SETEX of one loop iteration.
set_multi_setex_command(pair, expiration) ==
    <<"SETEX", PhysKey(pair[1]), expiration, dumps(pair[2])>>

PrefixAll(keys) == [i \in 1..Len(keys) |-> PhysKey(keys[i])]

rpush_command_AtHead(key, value) == <<"LPUSH", PhysKey(key), dumps(value)>>

rpush_command(key, value) == <<"RPUSH", PhysKey(key), dumps(value)>>
lpop_command(key) == <<"LPOP", PhysKey(key)>>
increment_by_command(key, value) == <<"INCRBY", PhysKey(key), value>>
decrement_by_command_Adds(key, value) == <<"INCRBY", PhysKey(key), value>>

decrement_by_command(key, value) == <<"DECRBY", PhysKey(key), value>>

\* The command the current step of call c sends through execute.
Command(c) ==
    CASE c.op = "set" -> set_command(c.key, c.value, c.expiration)
      [] c.op = "set_multi" -> set_multi_command(c.data)
      [] c.op = "get" -> <<"GET", PhysKey(c.key)>>
      [] c.op = "get_multi" -> <<"MGET">> \o PrefixAll(c.keys)
      [] c.op = "rpush" -> rpush_command(c.key, c.value)
      [] c.op = "lpush" -> <<"LPUSH", PhysKey(c.key), dumps(c.value)>>
      [] c.op = "rpop" -> <<"RPOP", PhysKey(c.key)>>
      [] c.op = "lpop" -> lpop_command(c.key)
      [] c.op = "lrange" -> <<"LRANGE", PhysKey(c.key), c.start, c.end>>
      [] c.op = "lindex" -> <<"LINDEX", PhysKey(c.key), c.index>>
      [] c.op = "llen" -> <<"LLEN", PhysKey(c.key)>>
      [] c.op = "ltrim" -> <<"LTRIM", PhysKey(c.key), c.start, c.end>>
      [] c.op = "delete" -> <<"DEL", PhysKey(c.key)>>
      [] c.op = "delete_multi" -> <<"DEL">> \o PrefixAll(c.keys)
      [] c.op = "flush_db" -> <<"FLUSHDB", "ASYNC">>
      [] c.op = "get_db_size" -> <<"DBSIZE">>
      [] c.op = "get_db_info" -> <<"INFO">>
      [] c.op = "get_last_save_time" -> <<"LASTSAVE">>
      [] c.op = "save_db" -> <<"BGSAVE">>
      [] c.op = "increment" -> <<"INCR", PhysKey(c.key)>>
      [] c.op = "increment_by" -> increment_by_command(c.key, c.amount)
      [] c.op = "decrement" -> <<"DECR", PhysKey(c.key)>>
      [] c.op = "decrement_by" -> decrement_by_command(c.key, c.amount)
      [] c.op = "test_con" ->
            IF c.i = 1 THEN set_command(c.key, "0", -1) ELSE <<"DEL", PhysKey(c.key)>>

get_result_NoDefault(data, default) == IF data = None THEN None ELSE loads(data)

\* get: the default for no data, the decoded value otherwise.
get_result(data, default) == IF data = None THEN default ELSE loads(data)

\* get_multi: result[keys[index]] for index = 0, 1, ...; a later index of a
\* repeated key overwrites the earlier one.
get_multi_result(keys, data_list) ==
    [k \in {keys[i] : i \in 1..Len(keys)} |->
        LET i == CHOOSE j \in 1..Len(keys) :
                    keys[j] = k /\ \A m \in (j + 1)..Len(keys) : keys[m] # k
        IN IF data_list[i] = None THEN None ELSE loads(data_list[i])]

\* What the method makes of a reply that is not an error.
Result(c, reply) ==
    CASE c.op = "get" ->
            IF Decodable(reply) THEN Returned("value", get_result(reply, c.default))
            ELSE Raised("DecodeError")
      [] c.op = "get_multi" ->
            IF \A i \in 1..Len(reply) : Decodable(reply[i])
            THEN Returned("dict", get_multi_result(c.keys, reply))
            ELSE Raised("DecodeError")
      [] c.op \in {"rpop", "lpop", "lindex"} ->
            IF Decodable(reply) THEN Returned("value", loads(reply)) ELSE Raised("DecodeError")
      [] c.op = "lrange" ->
            IF \A i \in 1..Len(reply) : Decodable(reply[i])
            THEN Returned("list", [i \in 1..Len(reply) |-> loads(reply[i])])
            ELSE Raised("DecodeError")
      [] c.op \in CounterOps \cup {"llen", "get_db_size", "get_last_save_time"} ->
            Returned("int", reply)
      [] c.op = "get_db_info" -> Returned("str", reply)
      [] OTHER -> NoResult

-----------------------------------------------------------------------------
(* Observers: what the callers have asked for so far, kept from the calls' *)
(* arguments alone.  They are no state of the program; a specification     *)
(* either lets them follow the calls (execute_watched) or leaves them be.  *)

RECURSIVE WriteAll(_, _)
WriteAll(m, data) ==
    IF data = <<>> THEN m
    ELSE WriteAll([m EXCEPT ![data[1][1]] = data[1][2]], Tail(data))

\* The logical keys a successful call removes.
Removed(c) ==
    CASE c.op = "delete" -> {c.key}
      [] c.op = "delete_multi" -> {c.keys[i] : i \in 1..Len(c.keys)}
      [] c.op = "flush_db" -> LogicalKeys
      [] OTHER -> {}

Signed(c) ==
    CASE c.op = "increment" -> 1
      [] c.op = "increment_by" -> c.amount
      [] c.op = "decrement" -> -1
      [] c.op = "decrement_by" -> 0 - c.amount
      [] OTHER -> 0

ObserveLast(c) ==
    CASE c.op = "set" -> [last EXCEPT ![c.key] = c.value]
      [] c.op = "set_multi" -> WriteAll(last, c.data)
      [] OTHER -> [k \in LogicalKeys |-> IF k \in Removed(c) THEN Absent ELSE last[k]]

ObserveTotal(c) ==
    IF c.op \in CounterOps THEN [total EXCEPT ![c.key] = @ + Signed(c)]
    ELSE [k \in LogicalKeys |-> IF k \in Removed(c) THEN 0 ELSE total[k]]

ObservePushed(c) ==
    IF c.op = "rpush" THEN [pushed EXCEPT ![c.key] = Append(@, c.value)]
    ELSE [k \in LogicalKeys |-> IF k \in Removed(c) THEN <<>> ELSE pushed[k]]

ObservePopped(c) ==
    IF c.op = "lpop"
    THEN [popped EXCEPT ![c.key] = IF @ < Len(pushed[c.key]) THEN @ + 1 ELSE @]
    ELSE [k \in LogicalKeys |-> IF k \in Removed(c) THEN 0 ELSE popped[k]]

observers == <<last, total, pushed, popped>>

\* The observers follow a step of p that applied the command of its call.
Watch(p) ==
    IF pc'[p] = "raised" THEN UNCHANGED observers
    ELSE /\ last' = ObserveLast(call[p])
         /\ total' = ObserveTotal(call[p])
         /\ pushed' = ObservePushed(call[p])
         /\ popped' = ObservePopped(call[p])

-----------------------------------------------------------------------------
(* Guards that keep counters and lists within the model's bounds.          *)

Running(p) == pc[p] \in {"create_pool", "pool_get", "execute"}

Pos(n) == IF n > 0 THEN n ELSE 0

\* The most the running adjustments of S can add (up) or take (~up).
RECURSIVE Swing(_, _)
Swing(S, up) ==
    IF S = {} THEN 0
    ELSE LET p == CHOOSE q \in S : TRUE
             by == Signed(call[p])
         IN Pos(IF up THEN by ELSE 0 - by) + Swing(S \ {p}, up)

\* A further adjustment by `by` may start when no order of the running
\* ones takes the counter of key beyond MaxCount in magnitude.
CounterRoom(key, by) ==
    LET S == {p \in Procs : Running(p) /\ call[p].op \in CounterOps
                             /\ call[p].key = key}
       e == store[PhysKey(key)]
       now == IF e.t = "string" /\ IsIntStr(e.s) THEN StrToInt(e.s) ELSE 0
    IN /\ now + Swing(S, TRUE) + Pos(by) <= MaxCount
       /\ now - Swing(S, FALSE) - Pos(0 - by) >= 0 - MaxCount

ListRoom(key) ==
    LET pushing == Cardinality({p \in Procs : Running(p) /\ call[p].op \in PushOps
                                              /\ call[p].key = key})
    IN /\ Len(store[PhysKey(key)].l) + pushing < MaxLen
       /\ Len(pushed[key]) + pushing < MaxLen

-----------------------------------------------------------------------------
(* The state machine.                                                      *)

Init ==
    /\ _pool = NoPool
    /\ created = 0
    /\ store = [k \in PhysKeys |-> IF k \in ForeignKeys THEN StrEntry("7", FALSE)
                                   ELSE NoEntry]
    /\ pc = [p \in Procs |-> "idle"]
    /\ call = [p \in Procs |-> NoCall]
    /\ pool = [p \in Procs |-> NoPool]
    /\ conn = [p \in Procs |-> NoPool]
    /\ ret = [p \in Procs |-> NoResult]
    /\ borrowed = [p \in Procs |-> 0]
    /\ issued = [p \in Procs |-> 0]
    /\ last = [k \in LogicalKeys |-> Absent]
    /\ total = [k \in LogicalKeys |-> 0]
    /\ pushed = [k \in LogicalKeys |-> <<>>]
    /\ popped = [k \in LogicalKeys |-> 0]
    /\ applied = [p \in Procs |-> <<>>]

\* get_aio_pool up to its first suspension, on behalf of call c of p:
\* an empty slot sends the caller into the driver's create_pool, a filled
\* one hands its pool over at once.
EnterPool(p, c) ==
    IF _pool = NoPool
    THEN /\ created < MaxPools
         /\ created' = created + 1
         /\ call' = [call EXCEPT ![p] = [c EXCEPT !.fresh = created + 1]]
         /\ pc' = [pc EXCEPT ![p] = "create_pool"]
         /\ UNCHANGED pool
    ELSE /\ call' = [call EXCEPT ![p] = c]
         /\ pool' = [pool EXCEPT ![p] = _pool]
         /\ pc' = [pc EXCEPT ![p] = "pool_get"]
         /\ UNCHANGED created

\* The first step of execute, `pool = await self.get_aio_pool()`, for call c.
Begin(p, c) ==
    /\ EnterPool(p, c)
    /\ UNCHANGED <<_pool, store, conn, ret, borrowed, issued, observers, applied>>

get_aio_pool(p) ==
    /\ pc[p] = "idle"
    /\ IF _pool = NoPool
       THEN /\ EnterPool(p, [NoCall EXCEPT !.op = "get_aio_pool"])
            /\ UNCHANGED ret
       ELSE /\ call' = [call EXCEPT ![p] = [NoCall EXCEPT !.op = "get_aio_pool"]]
            /\ pool' = [pool EXCEPT ![p] = _pool]
            /\ ret' = [ret EXCEPT ![p] = Returned("pool", _pool)]
            /\ pc' = [pc EXCEPT ![p] = "done"]
            /\ UNCHANGED created
    /\ UNCHANGED <<_pool, store, conn, borrowed, issued, observers, applied>>

\* The driver's create_pool returns inside get_aio_pool: the new pool goes
\* into the slot whatever the slot holds by now.
get_aio_pool_created(p) ==
    /\ pc[p] = "create_pool"
    /\ call[p].op # "create_aio_pool"
    /\ _pool' = call[p].fresh
    /\ pool' = [pool EXCEPT ![p] = call[p].fresh]
    /\ call' = [call EXCEPT ![p].fresh = NoPool]
    /\ IF call[p].op = "get_aio_pool"
       THEN /\ ret' = [ret EXCEPT ![p] = Returned("pool", call[p].fresh)]
            /\ pc' = [pc EXCEPT ![p] = "done"]
       ELSE /\ pc' = [pc EXCEPT ![p] = "pool_get"]
            /\ UNCHANGED ret
    /\ UNCHANGED <<created, store, conn, borrowed, issued, observers, applied>>

create_aio_pool(p) ==
    /\ pc[p] = "idle"
    /\ created < MaxPools
    /\ created' = created + 1
    /\ call' = [call EXCEPT ![p] = [NoCall EXCEPT !.op = "create_aio_pool",
                                                  !.fresh = created + 1]]
    /\ pc' = [pc EXCEPT ![p] = "create_pool"]
    /\ UNCHANGED <<_pool, store, pool, conn, ret, borrowed, issued, observers, applied>>

create_aio_pool_store_Always(slot, fresh) == fresh

\* if self._pool is None: self._pool = pool
create_aio_pool_store(slot, fresh) == IF slot = NoPool THEN fresh ELSE slot

create_aio_pool_created(p) ==
    /\ pc[p] = "create_pool"
    /\ call[p].op = "create_aio_pool"
    /\ _pool' = create_aio_pool_store(_pool, call[p].fresh)
    /\ pool' = [pool EXCEPT ![p] = call[p].fresh]
    /\ ret' = [ret EXCEPT ![p] = Returned("pool", call[p].fresh)]
    /\ pc' = [pc EXCEPT ![p] = "done"]
    /\ UNCHANGED <<created, store, call, conn, borrowed, issued, observers, applied>>

\* The driver's create_pool raises (connection refused, bad password).
create_pool_raises(p) ==
    /\ pc[p] = "create_pool"
    /\ ret' = [ret EXCEPT ![p] = Raised("ConnectionError")]
    /\ pc' = [pc EXCEPT ![p] = "raised"]
    /\ UNCHANGED <<_pool, created, store, call, pool, conn, borrowed, issued, observers, applied>>

InUse(h) == Cardinality({p \in Procs : conn[p] = h})

IsTtlBatch(c) == c.op = "set_multi" /\ c.expiration # -1

\* `async with pool.get() as redis`: a connection of the local pool is
\* borrowed.  A ttl batch with no pairs leaves the block at once.
pool_get(p) ==
    /\ pc[p] = "pool_get"
    /\ InUse(pool[p]) < _maxsize
    /\ borrowed' = [borrowed EXCEPT ![p] = @ + 1]
    /\ issued' = [issued EXCEPT ![p] = 0]
    /\ IF IsTtlBatch(call[p]) /\ call[p].data = <<>>
       THEN /\ pc' = [pc EXCEPT ![p] = "done"]
            /\ pool' = [pool EXCEPT ![p] = NoPool]
            /\ UNCHANGED conn
       ELSE /\ pc' = [pc EXCEPT ![p] = "execute"]
            /\ conn' = [conn EXCEPT ![p] = pool[p]]
            /\ UNCHANGED pool
    /\ UNCHANGED <<_pool, created, store, call, ret, observers, applied>>

release_Leak(held, p) == held

\* Leaving the `async with` block, by return or by exception.
release(held, p) == [held EXCEPT ![p] = NoPool]

\* execute: the one command of a method is applied and answered, the
\* connection goes back, and the method turns the reply into its result.
execute(p) ==
    /\ pc[p] = "execute"
    /\ ~IsTtlBatch(call[p])
    /\ ~(call[p].op = "test_con" /\ call[p].i = 1)
    /\ LET r == Redis(Command(call[p]), store)
           out == IF r.err THEN Raised(r.val) ELSE Result(call[p], r.val)
       IN /\ store' = r.store
          /\ ret' = [ret EXCEPT ![p] = out]
          /\ pc' = [pc EXCEPT ![p] = IF out.kind = "error" THEN "raised" ELSE "done"]
    /\ conn' = release(conn, p)
    /\ pool' = [pool EXCEPT ![p] = NoPool]
    /\ issued' = [issued EXCEPT ![p] = @ + 1]
    /\ UNCHANGED <<_pool, created, call, borrowed, applied>>

\* execute with the observers following the call.
execute_watched(p) ==
    /\ execute(p)
    /\ Watch(p)

\* execute with the observers left alone.
execute_plain(p) ==
    /\ execute(p)
    /\ UNCHANGED observers

\* The command in flight fails in the driver before the server applies it
\* (connection lost, timeout); the error leaves the `async with` block.
execute_raises(p) ==
    /\ pc[p] = "execute"
    /\ ret' = [ret EXCEPT ![p] = Raised("ConnectionError")]
    /\ pc' = [pc EXCEPT ![p] = "raised"]
    /\ conn' = release(conn, p)
    /\ pool' = [pool EXCEPT ![p] = NoPool]
    /\ issued' = [issued EXCEPT ![p] = @ + 1]
    /\ UNCHANGED <<_pool, created, store, call, borrowed, observers, applied>>

\* The caller takes the result; the coroutine is free for another call.
Return(p) ==
    /\ pc[p] \in {"done", "raised"}
    /\ pc' = [pc EXCEPT ![p] = "idle"]
    /\ call' = [call EXCEPT ![p] = NoCall]
    /\ pool' = [pool EXCEPT ![p] = NoPool]
    /\ ret' = [ret EXCEPT ![p] = NoResult]
    /\ borrowed' = [borrowed EXCEPT ![p] = 0]
    /\ issued' = [issued EXCEPT ![p] = 0]
    /\ applied' = [applied EXCEPT ![p] = <<>>]
    /\ UNCHANGED <<_pool, created, store, conn, observers>>

batch_pair_Reversed(data, i) == data[Len(data) + 1 - i]

\* `for value in data`: the pair of the i-th iteration.
batch_pair(data, i) == data[i]

\* set_multi with expiration, one iteration of its loop: the SETEX of the
\* next pair on the connection the call holds.  An error reply ends the
\* call; after the last pair the `async with` block is left.
set_multi_setex(p) ==
    /\ pc[p] = "execute"
    /\ IsTtlBatch(call[p])
    /\ LET c == call[p]
           pair == batch_pair(c.data, c.i)
           cmd == set_multi_setex_command(pair, c.expiration)
           r == Redis(cmd, store)
       IN /\ store' = r.store
          /\ issued' = [issued EXCEPT ![p] = @ + 1]
          /\ IF r.err
             THEN /\ ret' = [ret EXCEPT ![p] = Raised(r.val)]
                  /\ pc' = [pc EXCEPT ![p] = "raised"]
                  /\ conn' = release(conn, p)
                  /\ pool' = [pool EXCEPT ![p] = NoPool]
                  /\ UNCHANGED <<call, applied>>
             ELSE /\ applied' = [applied EXCEPT ![p] = Append(@, <<cmd[2], cmd[4]>>)]
                  /\ IF c.i = Len(c.data)
                     THEN /\ pc' = [pc EXCEPT ![p] = "done"]
                          /\ conn' = release(conn, p)
                          /\ pool' = [pool EXCEPT ![p] = NoPool]
                          /\ UNCHANGED call
                     ELSE /\ call' = [call EXCEPT ![p].i = c.i + 1]
                          /\ UNCHANGED <<pc, conn, pool>>
                  /\ UNCHANGED ret
    /\ UNCHANGED <<_pool, created, borrowed, observers>>

\* test_con after `await self.set(key, 0)`: the SET is applied, its
\* connection returned, and `await self.delete(key)` begins.
test_con_set(p) ==
    /\ pc[p] = "execute"
    /\ call[p].op = "test_con" /\ call[p].i = 1
    /\ LET r == Redis(Command(call[p]), store)
       IN /\ store' = r.store
          /\ IF r.err
             THEN /\ ret' = [ret EXCEPT ![p] = Raised(r.val)]
                  /\ pc' = [pc EXCEPT ![p] = "raised"]
                  /\ pool' = [pool EXCEPT ![p] = NoPool]
                  /\ UNCHANGED call
             ELSE /\ call' = [call EXCEPT ![p].i = 2]
                  /\ pool' = [pool EXCEPT ![p] = _pool]
                  /\ pc' = [pc EXCEPT ![p] = "pool_get"]
                  /\ UNCHANGED ret
    /\ conn' = release(conn, p)
    /\ issued' = [issued EXCEPT ![p] = @ + 1]
    /\ UNCHANGED <<_pool, created, borrowed, observers, applied>>

\* The server drops a key whose expiry has passed.
Expire(k) ==
    /\ store[k].ttl
    /\ store' = [store EXCEPT ![k] = NoEntry]
    /\ UNCHANGED <<_pool, created, pc, call, pool, conn, ret, borrowed, issued,
                   observers, applied>>

(* The facade's methods, as called with given arguments.                   *)

set(p, key, value, expiration) ==
    /\ pc[p] = "idle"
    /\ Begin(p, [NoCall EXCEPT !.op = "set", !.key = key, !.value = value,
                               !.expiration = expiration])

set_multi(p, data, expiration) ==
    /\ pc[p] = "idle"
    /\ Begin(p, [NoCall EXCEPT !.op = "set_multi", !.data = data,
                               !.expiration = expiration, !.i = 1])

get(p, key, default) ==
    /\ pc[p] = "idle"
    /\ Begin(p, [NoCall EXCEPT !.op = "get", !.key = key, !.default = default])

get_multi(p, keys) ==
    /\ pc[p] = "idle"
    /\ Begin(p, [NoCall EXCEPT !.op = "get_multi", !.keys = keys])

rpush(p, key, value) ==
    /\ pc[p] = "idle"
    /\ ListRoom(key)
    /\ Begin(p, [NoCall EXCEPT !.op = "rpush", !.key = key, !.value = value])

lpush(p, key, value) ==
    /\ pc[p] = "idle"
    /\ ListRoom(key)
    /\ Begin(p, [NoCall EXCEPT !.op = "lpush", !.key = key, !.value = value])

rpop(p, key) ==
    /\ pc[p] = "idle"
    /\ Begin(p, [NoCall EXCEPT !.op = "rpop", !.key = key])

lpop(p, key) ==
    /\ pc[p] = "idle"
    /\ Begin(p, [NoCall EXCEPT !.op = "lpop", !.key = key])

lrange(p, key, start, end) ==
    /\ pc[p] = "idle"
    /\ Begin(p, [NoCall EXCEPT !.op = "lrange", !.key = key, !.start = start,
                               !.end = end])

lindex(p, key, index) ==
    /\ pc[p] = "idle"
    /\ Begin(p, [NoCall EXCEPT !.op = "lindex", !.key = key, !.index = index])

llen(p, key) ==
    /\ pc[p] = "idle"
    /\ Begin(p, [NoCall EXCEPT !.op = "llen", !.key = key])

ltrim(p, key, start, end) ==
    /\ pc[p] = "idle"
    /\ Begin(p, [NoCall EXCEPT !.op = "ltrim", !.key = key, !.start = start,
                               !.end = end])

delete(p, key) ==
    /\ pc[p] = "idle"
    /\ Begin(p, [NoCall EXCEPT !.op = "delete", !.key = key])

delete_multi(p, keys) ==
    /\ pc[p] = "idle"
    /\ Begin(p, [NoCall EXCEPT !.op = "delete_multi", !.keys = keys])

flush_db(p) ==
    /\ pc[p] = "idle"
    /\ Begin(p, [NoCall EXCEPT !.op = "flush_db"])

get_db_size(p) ==
    /\ pc[p] = "idle"
    /\ Begin(p, [NoCall EXCEPT !.op = "get_db_size"])

get_db_info(p) ==
    /\ pc[p] = "idle"
    /\ Begin(p, [NoCall EXCEPT !.op = "get_db_info"])

get_last_save_time(p) ==
    /\ pc[p] = "idle"
    /\ Begin(p, [NoCall EXCEPT !.op = "get_last_save_time"])

save_db(p) ==
    /\ pc[p] = "idle"
    /\ Begin(p, [NoCall EXCEPT !.op = "save_db"])

increment(p, key) ==
    /\ pc[p] = "idle"
    /\ CounterRoom(key, 1)
    /\ Begin(p, [NoCall EXCEPT !.op = "increment", !.key = key])

increment_by(p, key, value) ==
    /\ pc[p] = "idle"
    /\ CounterRoom(key, value)
    /\ Begin(p, [NoCall EXCEPT !.op = "increment_by", !.key = key, !.amount = value])

decrement(p, key) ==
    /\ pc[p] = "idle"
    /\ CounterRoom(key, -1)
    /\ Begin(p, [NoCall EXCEPT !.op = "decrement", !.key = key])

decrement_by(p, key, value) ==
    /\ pc[p] = "idle"
    /\ CounterRoom(key, 0 - value)
    /\ Begin(p, [NoCall EXCEPT !.op = "decrement_by", !.key = key, !.amount = value])

\* key = 'moca_modules_connection_test_key' + get_random_string(32)
test_con(p, r) ==
    /\ pc[p] = "idle"
    /\ Begin(p, [NoCall EXCEPT !.op = "test_con", !.key = ProbeKey(r), !.i = 1])

-----------------------------------------------------------------------------
(* Specifications: the same machine under different callers.               *)

Workers == {1, 2}

\* Batches for set_multi: empty, one pair, two keys, one key twice.
Batches == {<<>>, <<<<"a", "u">>>>, <<<<"a", "w">>, <<"b", "u">>>>,
            <<<<"b", "w">>, <<"a", "u">>>>, <<<<"b", "u">>, <<"b", "w">>>>}
\* Key lists for get_multi and delete_multi.
KeyLists == {<<>>, <<"a">>, <<"a", "b">>, <<"b", "a">>, <<"b", "b">>}

\* Key-value callers: writers without expiration, readers, deleters.
NextKV ==
    \E p \in Workers :
        \/ \E k \in Keys, v \in Values : set(p, k, v, -1)
        \/ \E d \in Batches : set_multi(p, d, -1)
        \/ \E k \in Keys, d \in Defaults : get(p, k, d)
        \/ \E ks \in KeyLists : get_multi(p, ks)
        \/ \E k \in Keys : delete(p, k)
        \/ \E ks \in KeyLists : delete_multi(p, ks)
        \/ get_aio_pool_created(p)
        \/ pool_get(p)
        \/ execute_watched(p)
        \/ Return(p)

SpecKV == Init /\ [][NextKV]_vars

-----------------------------------------------------------------------------
(* Properties of the key-value methods, under SpecKV.                      *)

\* What a reader is due for logical key k: the value of the latest applied
\* write, or nothing.
Latest(k, otherwise) == IF last[k] = Absent THEN otherwise ELSE last[k]

\* C3: a get(k, d) returns the value of the most recent set(k, v) that no
\* delete of k followed, and the default d when there is none.
C3_GetReturnsLatestSet ==
    [][\A p \in Procs :
          (pc[p] = "execute" /\ call[p].op = "get" /\ pc'[p] # "execute")
          => /\ pc'[p] = "done"
             /\ ret'[p].val = Latest(call[p].key, call[p].default)]_vars

\* One get has returned a value that set stored, another its default.
C3_Witness ==
    \E p, q \in Procs :
        /\ pc[p] = "done" /\ call[p].op = "get" /\ call[p].default = "d"
        /\ ret[p].val = "w" /\ last[call[p].key] = "w"
        /\ pc[q] = "done" /\ call[q].op = "get" /\ call[q].default = "d"
        /\ ret[q].val = "d" /\ last[call[q].key] = Absent

\* C4: set_multi without ttl takes effect as one batch: what get_multi
\* returns is, for every key asked, the value left by the whole batches
\* applied so far (None for a key none of them wrote), never part of one.
C4_BatchAtomic ==
    [][\A p \in Procs :
          (pc[p] = "execute" /\ call[p].op = "get_multi" /\ pc'[p] = "done")
          => ret'[p].val = [k \in {call[p].keys[i] : i \in 1..Len(call[p].keys)}
                          |-> Latest(k, None)]]_vars

\* A set_multi of two pairs has returned and a get_multi over its keys has
\* returned exactly its mapping.
C4_Witness ==
    \E p, q \in Procs :
        /\ pc[p] = "done" /\ call[p].op = "set_multi"
        /\ call[p].data = <<<<"a", "w">>, <<"b", "u">>>>
        /\ pc[q] = "done" /\ call[q].op = "get_multi"
        /\ call[q].keys = <<"a", "b">>
        /\ ret[q].val = [k \in {"a", "b"} |-> IF k = "a" THEN "w" ELSE "u"]

-----------------------------------------------------------------------------
(* Batches with an expiration, under SpecTTL.                              *)

Expirations == {0, 5}

\* Writers of expiring batches, readers, a driver that may fail and a
\* server that expires keys.
NextTTL ==
    \/ \E p \in Workers :
        \/ \E d \in Batches, e \in Expirations : set_multi(p, d, e)
        \/ \E ks \in {<<"a", "b">>, <<"b", "a">>} : get_multi(p, ks)
        \/ get_aio_pool_created(p)
        \/ pool_get(p)
        \/ set_multi_setex(p)
        \/ execute_plain(p)
        \/ execute_raises(p)
        \/ Return(p)
    \/ \E k \in PhysKeys : Expire(k)

SpecTTL == Init /\ [][NextTTL]_vars

\* The first n pairs of data as the server stores them.
StoredPrefix(data, n) == [j \in 1..n |-> <<PhysKey(data[j][1]), dumps(data[j][2])>>]

\* C5: set_multi with a ttl writes its pairs one at a time in list order;
\* when the write of the i-th pair fails the server has applied exactly the
\* first i-1 pairs for this call, the failing write was issued once and
\* nothing after it, and the caller gets the driver's error.
C5_TtlBatchPrefix ==
    \A p \in Procs :
        (IsTtlBatch(call[p]) /\ pc[p] \in {"execute", "done", "raised"})
        => LET c == call[p]
               n == IF pc[p] = "done" THEN Len(c.data) ELSE c.i - 1
           IN /\ applied[p] = StoredPrefix(c.data, n)
              /\ issued[p] = IF pc[p] = "raised" THEN n + 1 ELSE n
              /\ pc[p] = "raised"
                 => ret[p].val \in {"ConnectionError", "ERR invalid expire time"}

\* The second write of a two-pair batch has failed, the first pair alone
\* was applied, and a reader has seen just that pair.
C5_Witness ==
    \E p, q \in Procs :
        /\ pc[p] = "raised" /\ IsTtlBatch(call[p])
        /\ call[p].data = <<<<"a", "w">>, <<"b", "u">>>>
        /\ call[p].i = 2 /\ Len(applied[p]) = 1 /\ ret[p].val = "ConnectionError"
        /\ pc[q] = "done" /\ call[q].op = "get_multi"
        /\ call[q].keys = <<"a", "b">>
        /\ ret[q].val = [k \in {"a", "b"} |-> IF k = "a" THEN "w" ELSE None]

-----------------------------------------------------------------------------
(* Counters, under SpecCounter.                                            *)

Amounts == {2, 5}

\* Concurrent adjusters of one counter, and a deleter that makes the key
\* absent again.
NextCounter ==
    \E p \in Workers :
        \/ increment(p, "a")
        \/ \E n \in Amounts : increment_by(p, "a", n)
        \/ decrement(p, "a")
        \/ \E n \in Amounts : decrement_by(p, "a", n)
        \/ delete(p, "a")
        \/ get_aio_pool_created(p)
        \/ pool_get(p)
        \/ execute_watched(p)
        \/ Return(p)

SpecCounter == Init /\ [][NextCounter]_vars

\* The integer the server holds for logical key k (0 for an absent key).
Stored(k) ==
    IF store[PhysKey(k)].t = "none" THEN 0 ELSE StrToInt(store[PhysKey(k)].s)

\* C6: every counter call returns the value right after its own adjustment
\* of the sum of the amounts applied before it, and the stored value is at
\* every moment the sum of the signed amounts applied since the key was
\* absent: no update is lost.
C6_CounterAtomic ==
    [][/\ \A k \in Keys : store'[PhysKey(k)].t # "list" /\ Stored(k)' = total'[k]
       /\ \A p \in Procs :
            (pc[p] = "execute" /\ call[p].op \in CounterOps /\ pc'[p] # "execute")
            => /\ pc'[p] = "done"
               /\ ret'[p].val = total[call[p].key] + Signed(call[p])]_vars

\* increment_by 5 on the fresh key returned 5, the decrement_by 2 after it 3.
C6_Witness ==
    \E p, q \in Procs :
        /\ pc[p] = "done" /\ call[p].op = "increment_by" /\ call[p].amount = 5
        /\ ret[p].val = 5
        /\ pc[q] = "done" /\ call[q].op = "decrement_by" /\ call[q].amount = 2
        /\ ret[q].val = 3
        /\ Stored("a") = 3

-----------------------------------------------------------------------------
(* Lists, under SpecList.                                                  *)

\* Appenders, head poppers and readers of one list, and a deleter.
NextList ==
    \E p \in Workers :
        \/ \E v \in Values : rpush(p, "a", v)
        \/ lpop(p, "a")
        \/ lrange(p, "a", 0, -1)
        \/ llen(p, "a")
        \/ delete(p, "a")
        \/ get_aio_pool_created(p)
        \/ pool_get(p)
        \/ execute_watched(p)
        \/ Return(p)

SpecList == Init /\ [][NextList]_vars

\* The values appended to k and not yet popped, oldest first.
Remaining(k) == SubSeq(pushed[k], popped[k] + 1, Len(pushed[k]))

\* C7: a list keeps insertion order: lrange(k, 0, -1) returns the values
\* appended by rpush and not yet popped, in the order of their rpush; lpop
\* returns the oldest of them; llen is their number.
C7_ListOrder ==
    [][\A p \in Procs :
          (pc[p] = "execute" /\ pc'[p] # "execute"
             /\ call[p].op \in {"lrange", "lpop", "llen"})
          => /\ pc'[p] = "done"
             /\ LET rest == Remaining(call[p].key) IN
                ret'[p].val = CASE call[p].op = "lrange" -> rest
                            [] call[p].op = "llen" -> Len(rest)
                            [] call[p].op = "lpop" ->
                                 IF rest = <<>> THEN None ELSE Head(rest)]_vars

\* Three values were appended, lrange returned them in order, and after
\* three pops, the last returning the value appended last, the key is gone.
C7_Witness ==
    \E p, q \in Procs :
        /\ pushed["a"] = <<"u", "w", "w">> /\ popped["a"] = 3
        /\ pc[p] = "done" /\ call[p].op = "lrange" /\ ret[p].val = <<"u", "w", "w">>
        /\ pc[q] = "done" /\ call[q].op = "lpop" /\ ret[q].val = "w"
        /\ store[PhysKey("a")].t = "none"

-----------------------------------------------------------------------------
(* The shared pool, under SpecLazyPool and SpecPool.                       *)

\* Callers that reach the pool through get_aio_pool only, directly or
\* through a data method, with a driver that does not fail.
NextLazyPool ==
    \E p \in Procs :
        \/ get_aio_pool(p)
        \/ get_db_size(p)
        \/ get_aio_pool_created(p)
        \/ pool_get(p)
        \/ execute_plain(p)
        \/ Return(p)

SpecLazyPool == Init /\ [][NextLazyPool]_vars

\* The same callers with create_aio_pool, and a driver that may fail.
NextPool ==
    \E p \in Procs :
        \/ get_aio_pool(p)
        \/ create_aio_pool(p)
        \/ get_db_size(p)
        \/ get_aio_pool_created(p)
        \/ create_aio_pool_created(p)
        \/ create_pool_raises(p)
        \/ pool_get(p)
        \/ execute_plain(p)
        \/ execute_raises(p)
        \/ Return(p)

SpecPool == Init /\ [][NextPool]_vars

PoolOps == {"get_aio_pool", "create_aio_pool"}

\* C1: without create_aio_pool the driver's create_pool is invoked at most
\* once and all get_aio_pool calls return the same pool handle.
C1_CreatedOnce ==
    /\ created <= 1
    /\ \A p, q \in Procs :
          (pc[p] = "done" /\ call[p].op = "get_aio_pool"
             /\ pc[q] = "done" /\ call[q].op = "get_aio_pool")
          => ret[p].val = ret[q].val

\* The pool handles other coroutines hold or were given.
HandlesOfOthers(p) ==
    {pool[q] : q \in Procs \ {p}} \cup {conn[q] : q \in Procs \ {p}}
      \cup {ret[q].val : q \in {r \in Procs \ {p} : pc[r] = "done" /\ call[r].op \in PoolOps}}

\* C2: create_aio_pool returns a pool of its own making, puts it into the
\* slot only when the slot is empty at that moment, and leaves a filled
\* slot as it is; a get_aio_pool that finds the slot filled returns the
\* slot's pool, not the one create_aio_pool made.
C2_CreateStoresIfEmpty ==
    [][\A p \in Procs :
          /\ (pc[p] = "create_pool" /\ call[p].op = "create_aio_pool"
                /\ pc'[p] = "done")
             => /\ ret'[p].val # NoPool
                /\ ret'[p].val # _pool
                /\ ret'[p].val \notin HandlesOfOthers(p)
                /\ _pool' = IF _pool = NoPool THEN ret'[p].val ELSE _pool
          /\ (pc[p] = "idle" /\ pc'[p] = "done" /\ call'[p].op = "get_aio_pool")
             => ret'[p].val = _pool /\ _pool' = _pool]_vars

\* create_aio_pool has returned a pool that is not in the slot, and a
\* get_aio_pool has returned the pool the slot holds.
C2_Witness ==
    \E p, q \in Procs :
        /\ pc[p] = "done" /\ call[p].op = "create_aio_pool"
        /\ _pool # NoPool /\ ret[p].val # _pool
        /\ pc[q] = "done" /\ call[q].op = "get_aio_pool" /\ ret[q].val = _pool

\* C10: the slot is write-once: it changes from empty to a pool and never
\* from one pool to another.
C10_SlotWriteOnce == [][_pool # NoPool => _pool' = _pool]_vars

-----------------------------------------------------------------------------
(* The whole facade, under Spec: one caller using every method.            *)

Caller == {1}

Next ==
    \/ \E p \in Caller :
        \/ get_aio_pool(p)
        \/ create_aio_pool(p)
        \/ \E k \in Keys, e \in {-1, 5} : set(p, k, "u", e)
        \/ \E e \in {-1, 5} : set_multi(p, <<<<"a", "w">>, <<"b", "u">>>>, e)
        \/ \E k \in Keys : get(p, k, "d")
        \/ get_multi(p, <<"a", "b">>)
        \/ rpush(p, "a", "u")
        \/ lpush(p, "a", "w")
        \/ rpop(p, "a")
        \/ lpop(p, "a")
        \/ lrange(p, "a", 0, -1)
        \/ lindex(p, "a", -1)
        \/ llen(p, "a")
        \/ ltrim(p, "a", 1, -1)
        \/ \E k \in Keys : delete(p, k)
        \/ delete_multi(p, <<"a", "b">>)
        \/ flush_db(p)
        \/ get_db_size(p)
        \/ get_db_info(p)
        \/ get_last_save_time(p)
        \/ save_db(p)
        \/ increment(p, "a")
        \/ increment_by(p, "a", 2)
        \/ decrement(p, "a")
        \/ decrement_by(p, "a", 2)
        \/ \E r \in ProbeSuffixes : test_con(p, r)
        \/ get_aio_pool_created(p)
        \/ create_aio_pool_created(p)
        \/ create_pool_raises(p)
        \/ pool_get(p)
        \/ execute_plain(p)
        \/ set_multi_setex(p)
        \/ test_con_set(p)
        \/ execute_raises(p)
        \/ Return(p)
    \/ \E k \in PhysKeys : Expire(k)

Spec == Init /\ [][Next]_vars

\* C8: no method but flush_db changes a physical key outside the "mr-"
\* namespace, and flush_db removes every key.
C8_NamespaceFrame ==
    [][\A k \in PhysKeys :
          ~InNamespace(k)
          => \/ store'[k] = store[k]
             \/ /\ \E p \in Procs : pc[p] = "execute" /\ call[p].op = "flush_db"
                                    /\ pc'[p] = "done"
                /\ \A j \in PhysKeys : store'[j] = NoEntry]_vars

\* set has stored under "mr-a" while the foreign key "a" still holds what
\* it held at the start.
C8_Witness ==
    \E p \in Procs :
        /\ pc[p] = "done" /\ call[p].op = "set" /\ call[p].key = "a"
        /\ store["mr-a"].t = "string" /\ store["mr-a"].s = dumps("u")
        /\ store["a"] = StrEntry("7", FALSE)

\* C9 as stated: every method borrows one connection, issues exactly one
\* command on it and releases it; no connection is held across more than
\* one command, and a finished method holds none.
C9_OneCommandPerBorrow ==
    \A p \in Procs :
        /\ conn[p] # NoPool => issued[p] = 0
        /\ pc[p] \in {"idle", "done", "raised"} => conn[p] = NoPool
        /\ (pc[p] = "done" /\ call[p].op \notin PoolOps)
           => borrowed[p] = 1 /\ issued[p] = 1

\* C9 as the code has it: a connection is held across more than one
\* command only by set_multi with a ttl, which issues one SETEX per pair on
\* the one connection it borrows; every other method borrows one connection
\* per command (test_con twice, for its SET and its DEL); a method that has
\* finished, by return or by error, holds no connection.
C9_BorrowAndRelease ==
    \A p \in Procs :
        LET c == call[p] IN
        /\ (conn[p] # NoPool /\ issued[p] > 0) => IsTtlBatch(c)
        /\ conn[p] # NoPool => pc[p] = "execute" /\ conn[p] = pool[p]
        /\ pc[p] \in {"idle", "done", "raised"} => conn[p] = NoPool
        /\ (pc[p] = "done" /\ c.op \notin PoolOps)
           => /\ borrowed[p] = IF c.op = "test_con" THEN 2 ELSE 1
              /\ issued[p] = IF IsTtlBatch(c) THEN Len(c.data) ELSE 1

\* A set_multi with a ttl issued two commands on its one connection, the
\* second failed, and the connection is back in the pool.
C9_Witness ==
    \E p \in Procs :
        /\ pc[p] = "raised" /\ IsTtlBatch(call[p])
        /\ borrowed[p] = 1 /\ issued[p] = 2
        /\ conn[p] = NoPool /\ InUse(_pool) = 0

====
